---- MODULE Spec2Model ----
(***************************************************************************)
(* A model of parse_gabc.py: GabcParser (clef, syllable preprocessing, the *)
(* per-character scan, lengthening), Scale and Note (pitch, duration,      *)
(* rendering to lilypond).  Strings are sequences of one-character         *)
(* strings; rendered lilypond text is built as real strings.               *)
(***************************************************************************)
EXTENDS Integers, Sequences, FiniteSets, TLC

(***************************************************************************)
(* Characters.                                                             *)
(***************************************************************************)
LowerLetters == <<"a", "b", "c", "d", "e", "f", "g", "h", "i", "j", "k", "l", "m">>
UpperLetters == <<"A", "B", "C", "D", "E", "F", "G", "H", "I", "J", "K", "L", "M">>

\* the characters the scan treats as notes: "a" <= ch <= "m"
PitchLetters == {LowerLetters[i] : i \in 1..13}
UpperPitch == {UpperLetters[i] : i \in 1..13}
\* the class [a-l] of LAST_NEUME_PATTERN, under (?i:...)
NeumeLetters == {LowerLetters[i] : i \in 1..12} \cup {UpperLetters[i] : i \in 1..12}
Digits == {"0", "1", "2", "3", "4", "5", "6", "7", "8", "9"}
ClefLetters == {"c", "f"}
ClefLines == {"1", "2", "3", "4"}
AccidentalMarks == {"x", "y"}
Ignorable == {"v", "@", "/", "!", "\n", "z"}
BarChars == {",", ";", ":"}

\* ord() of a letter a..m
Ord(ch) == 96 + (CHOOSE i \in 1..13 : LowerLetters[i] = ch)

\* int() of a digit character
DigitVal(ch) == CHOOSE n \in 0..9 : <<"0", "1", "2", "3", "4", "5", "6", "7", "8", "9">>[n + 1] = ch

\* str.lower() on one character, and on a string
LowerCh(ch) ==
    IF ch \in UpperPitch
    THEN LowerLetters[CHOOSE i \in 1..13 : UpperLetters[i] = ch]
    ELSE ch

Lower(s) == [i \in 1..Len(s) |-> LowerCh(s[i])]

\* s[from..] as a sequence (empty when from is past the end)
Drop(s, n) == SubSeq(s, n + 1, Len(s))

(***************************************************************************)
(* The regular expressions of GabcParser, as matchers on sequences.        *)
(***************************************************************************)
\* DOUBLE_BAR.match(s): "::" at the start
DoubleBarMatch(s) == Len(s) >= 2 /\ s[1] = ":" /\ s[2] = ":"

\* CLEF_PATTERN.match(s): ([cf])([1-4]) at the start
ClefMatch(s) == Len(s) >= 2 /\ s[1] \in ClefLetters /\ s[2] \in ClefLines

\* [a-m][xy] at the start
AccidentalAt(s) == Len(s) >= 2 /\ s[1] \in PitchLetters /\ s[2] \in AccidentalMarks

\* re.search(r"[a-m]([xy])", s): group 1 of the leftmost match, "" if none
RECURSIVE AccidentalSearch(_)
AccidentalSearch(s) ==
    IF Len(s) < 2 THEN ""
    ELSE IF AccidentalAt(s) THEN s[2]
    ELSE AccidentalSearch(Tail(s))

\* re.sub(r"[a-m][xy]", "", s)
RECURSIVE SubAccidental(_)
SubAccidental(s) ==
    IF Len(s) < 2 THEN s
    ELSE IF AccidentalAt(s) THEN SubAccidental(Drop(s, 2))
    ELSE <<s[1]>> \o SubAccidental(Tail(s))

\* re.sub(DOUBLE_BAR, "", s)
RECURSIVE SubDoubleBar(_)
SubDoubleBar(s) ==
    IF Len(s) < 2 THEN s
    ELSE IF DoubleBarMatch(s) THEN SubDoubleBar(Drop(s, 2))
    ELSE <<s[1]>> \o SubDoubleBar(Tail(s))

\* re.sub(CLEF_PATTERN, "", s)
RECURSIVE SubClef(_)
SubClef(s) ==
    IF Len(s) < 2 THEN s
    ELSE IF ClefMatch(s) THEN SubClef(Drop(s, 2))
    ELSE <<s[1]>> \o SubClef(Tail(s))

\* length of the match of \[\d+\] at the start of s, 0 if none
BracketNumLen(s) ==
    IF Len(s) >= 3 /\ s[1] = "["
    THEN LET ends == {j \in 3..Len(s) :
                        s[j] = "]" /\ \A k \in 2..(j - 1) : s[k] \in Digits}
         IN  IF ends = {} THEN 0 ELSE CHOOSE j \in ends : TRUE
    ELSE 0

\* re.sub(r"\[\d+\]", "", s)
RECURSIVE SubBracketNum(_)
SubBracketNum(s) ==
    IF Len(s) < 3 THEN s
    ELSE IF BracketNumLen(s) > 0 THEN SubBracketNum(Drop(s, BracketNumLen(s)))
    ELSE <<s[1]>> \o SubBracketNum(Tail(s))

\* length of the match of \[.*\] at the start of s, 0 if none: greedy, the
\* last "]" reachable without crossing a newline
BracketAnyLen(s) ==
    IF Len(s) >= 2 /\ s[1] = "["
    THEN LET ends == {j \in 2..Len(s) :
                        s[j] = "]" /\ \A k \in 2..(j - 1) : s[k] # "\n"}
         IN  IF ends = {} THEN 0 ELSE CHOOSE j \in ends : \A k \in ends : k <= j
    ELSE 0

\* re.sub(r"\[.*\]", "", s)
RECURSIVE SubBracketAny(_)
SubBracketAny(s) ==
    IF Len(s) < 2 THEN s
    ELSE IF BracketAnyLen(s) > 0 THEN SubBracketAny(Drop(s, BracketAnyLen(s)))
    ELSE <<s[1]>> \o SubBracketAny(Tail(s))

\* the loop over REMOVAL_PATTTERNS, in the order of the list
RemovePatterns(s) == SubBracketAny(SubBracketNum(SubClef(SubDoubleBar(s))))

\* LAST_NEUME_PATTERN.search(s): the length of the match, 0 if none.
\* "$" matches at the end and before a newline that ends the string.
LastNeumeSpan(s) ==
    LET e == IF Len(s) > 0 /\ s[Len(s)] = "\n" THEN Len(s) - 1 ELSE Len(s)
        starts == {i \in 1..e : \A k \in i..e : s[k] \in NeumeLetters}
    IN  IF starts # {} THEN Cardinality(starts)
        ELSE IF e >= 1 /\ s[e] = "." THEN 1
        ELSE 0

(***************************************************************************)
(* Scale.                                                                  *)
(***************************************************************************)
MIDI_PITCH_OFFSET == 60
NORMAL_DURATION == 2

\* Scale.__init__: the semi_tones dict of a new scale
NaturalSemiTones == [d \in 0..6 |-> <<0, 2, 4, 5, 7, 9, 11>>[d + 1]]

\* a new scale that starts with the seventh flattened
NewScaleFlattened(tonic) ==
    [tonic_adjust |-> tonic, semi_tones |-> [NaturalSemiTones EXCEPT ![6] = 10]]

NewScale(tonic) == [tonic_adjust |-> tonic, semi_tones |-> NaturalSemiTones]

\* Scale.semitones: divmod(n, 7) floors, the degree is in 0..6
Semitones(sc, n) == (n \div 7) * 12 + sc.semi_tones[n % 7]

\* undo_accidental that leaves the seventh as it is
UndoAccidentalKeepsFlat(sc) == sc

\* Scale.undo_accidental
UndoAccidental(sc) == [sc EXCEPT !.semi_tones[6] = 11]

\* Scale.set_accidental
ScaleSetAccidental(sc, on_off) ==
    IF on_off = "on" THEN [sc EXCEPT !.semi_tones[6] = 10] ELSE UndoAccidental(sc)

\* Scale.get_scale_pos: the first key whose value is intvl; -1 stands for
\* the failing lookup (the function raises)
GetScalePos(sc, intvl) ==
    LET keys == {d \in 0..6 : sc.semi_tones[d] = intvl}
    IN  IF keys = {} THEN -1 ELSE CHOOSE d \in keys : \A e \in keys : d <= e

\* Scale.lower_note: the semitone value handed to Note(), when the reverse
\* lookup succeeds
LowerNoteOk(sc, value) == GetScalePos(sc, value % 12) # -1

\* lower_note that stays in the octave when it steps below degree 0
LowerNoteSameOctave(sc, value) ==
    LET octave == value \div 12
        pos == GetScalePos(sc, value % 12)
    IN  IF pos = 0 THEN 12 * octave + Semitones(sc, 6)
        ELSE 12 * octave + Semitones(sc, pos - 1)

LowerNote(sc, value) ==
    LET octave == value \div 12
        pos == GetScalePos(sc, value % 12)
    IN  IF pos = 0 THEN 12 * (octave - 1) + Semitones(sc, 6)
        ELSE 12 * octave + Semitones(sc, pos - 1)

(***************************************************************************)
(* Note.  A note keeps a reference to the Scale object that made it: the   *)
(* index of that object in scales.                                         *)
(***************************************************************************)
\* Note.__init__
NewNote(val, scale_ref) ==
    [val |-> val + MIDI_PITCH_OFFSET, scale |-> scale_ref,
     duration |-> NORMAL_DURATION, ornamentation |-> "None", doubled |-> FALSE]

\* increment_duration that honours the doubled flag on every path
IncrementDurationUnlessDoubled(note) ==
    IF note.doubled THEN note
    ELSE [note EXCEPT !.duration = note.duration + NORMAL_DURATION, !.doubled = TRUE]

\* Note.increment_duration
IncrementDuration(note) ==
    [note EXCEPT !.duration = note.duration + NORMAL_DURATION, !.doubled = TRUE]

\* halve_duration that divides the duration by two
HalveDurationByTwo(note) == [note EXCEPT !.duration = note.duration \div 2]

\* Note.halve_duration
HalveDuration(note) == [note EXCEPT !.duration = 1]

\* ornament that also moves the Note one semitone down
OrnamentLowersNote(note, ornamentation_type) ==
    [note EXCEPT !.ornamentation = ornamentation_type, !.val = note.val - 1]

\* Note.ornament
Ornament(note, ornamentation_type) == [note EXCEPT !.ornamentation = ornamentation_type]

LY_DURATION == <<"", "8", "4", "4.", "2", "2.", "1">>

NoteNames == <<"c", "cs", "d", "ds", "e", "f", "fs", "g", "gs", "a", "bf", "b">>

RECURSIVE Repeat(_, _)
Repeat(str, n) == IF n <= 0 THEN "" ELSE str \o Repeat(str, n - 1)

\* ly_octave that takes octave 5 for the one without a mark
LyOctaveMiddleFive(octave) ==
    IF octave > 5 THEN Repeat("'", octave - 5)
    ELSE IF octave = 5 THEN ""
    ELSE Repeat(",", 5 - octave)

\* Note.ly_octave
LyOctave(octave) ==
    IF octave > 4 THEN Repeat("'", octave - 4)
    ELSE IF octave = 4 THEN ""
    ELSE Repeat(",", 4 - octave)

\* Note.ly_fmt
LyFmt(note_num, octave, duration) == note_num \o octave \o duration

\* Note.to_ly: [ok, text, err]; sc is the Scale object the note refers to
ToLy(note, sc) ==
    LET octave == note.val \div 12
        notenum == note.val % 12
        octave_indicator == LyOctave(octave)
    IN  IF note.ornamentation = "None"
        THEN IF note.duration + 1 > Len(LY_DURATION)
             THEN [ok |-> FALSE, text |-> "", err |-> "DurationIndexError"]
             ELSE [ok |-> TRUE, err |-> "none",
                   text |-> LyFmt(NoteNames[notenum + 1], octave_indicator,
                                  LY_DURATION[note.duration + 1])]
        ELSE IF ~LowerNoteOk(sc, note.val - MIDI_PITCH_OFFSET)
             THEN [ok |-> FALSE, text |-> "", err |-> "InternalInconsistency"]
             ELSE LET main_frm == LyFmt(NoteNames[notenum + 1], octave_indicator, "8")
                      passing == LowerNote(sc, note.val - MIDI_PITCH_OFFSET)
                                     + MIDI_PITCH_OFFSET
                      pn_frm == NoteNames[(passing % 12) + 1]
                                  \o LyOctave(passing \div 12) \o "8"
                  IN  [ok |-> TRUE, err |-> "none",
                       text |-> "\\tuplet 3/2 { " \o main_frm \o " " \o pn_frm
                                  \o " " \o main_frm \o " }"]

(***************************************************************************)
(* GabcParser.                                                             *)
(***************************************************************************)
VARIABLES
    pc,              \* where the program is: "start" (before parse_gabc), "token"
                     \* (in parse_gabc, between syllables), "scan" (in the loop of
                     \* decode_gabc_string), "done" (parse_gabc returned),
                     \* "rendered" (to_ly returned), "error" (an exception left)
    err,             \* the exception that ended the run, "none" otherwise
    clef_in,         \* note_array[0]
    ntok,            \* how many syllable strings have been taken from note_array
    tok,             \* the syllable string decode_gabc_string was called with
    note_stream,     \* GabcParser.note_stream
    last_neume_len,  \* GabcParser.last_neume_len
    scales,          \* the Scale objects made so far; self.scale is the last one
    g_str,           \* g_str.lower(), the string the loop iterates
    pos,             \* the loop's position in g_str (1-based)
    prev_note,       \* local prev_note
    dot_seen,        \* local dot_seen
    output,          \* the note lines to_ly printed, once per block
    acc_scope,       \* history: "flat" after a flat was applied, "cancelled"
                     \* after a natural was applied inside it, "natural" after
                     \* a bar or a clef (and initially)
    run_notes,       \* history: the Notes created by the run of pitch letters
                     \* scanned last; 0 once any other character was scanned, or
                     \* another string began with something else than a bar
    nontie,          \* history: for every Note of note_stream, how many steps a
                     \* dot, a bar or a double bar has added to its duration
    passing          \* history: the val of the Notes get_note_lower returned to
                     \* to_ly, one for every ornamented Note of the stream, in
                     \* the order of the stream

vars == <<pc, err, clef_in, ntok, tok, note_stream, last_neume_len, scales, g_str,
          pos, prev_note, dot_seen, output, acc_scope, run_notes, nontie, passing>>

\* nontie after a call of maybe_lengthen_last_note(duplicate_note=False) that
\* took the stream from ns to ns2
CountLengthened(ns, ns2, cnt) ==
    [i \in DOMAIN ns2 |->
        cnt[i] + (ns2[i].duration - ns[i].duration) \div NORMAL_DURATION]

\* self.scale
CurScale == scales[Len(scales)]

\* set_clef that takes any letter a..m for a clef
SetClefOkAnyLetter(clef) ==
    Len(clef) >= 2 /\ Lower(clef)[1] \in PitchLetters /\ clef[2] \in Digits

\* set_clef that counts the lines from 0
SetClefTonicFromLineZero(clef) ==
    LET l == Lower(clef)
    IN  Ord(l[1]) - Ord("c") - 2 * DigitVal(l[2])

\* GabcParser.set_clef: does the clef match, and the tonic it gives
SetClefOk(clef) == ClefMatch(Lower(clef))

SetClefTonic(clef) ==
    LET l == Lower(clef)
    IN  Ord(l[1]) - Ord("c") - 2 * (DigitVal(l[2]) - 1)

\* GabcParser.make_note with Scale.make_note
MakeNote(letter) ==
    NewNote(Semitones(CurScale, (Ord(letter) - Ord("d")) + CurScale.tonic_adjust),
            Len(scales))

\* the loop of maybe_lengthen_last_note without the test of the doubled flag
RECURSIVE LengthenLoopAlways(_, _, _)
LengthenLoopAlways(ns, note_num, num_notes) ==
    IF note_num >= num_notes THEN [ns |-> ns, ok |-> TRUE]
    ELSE IF Len(ns) - note_num < 1 THEN [ns |-> ns, ok |-> FALSE]
    ELSE LET i == Len(ns) - note_num
         IN  LengthenLoopAlways([ns EXCEPT ![i] = IncrementDuration(ns[i])],
                                note_num + 1, num_notes)

\* the loop of maybe_lengthen_last_note: note_stream[-1 - note_num] for
\* note_num in range(num_notes); [ns, ok], ok false when the index is out
\* of range (what was incremented before stays incremented)
RECURSIVE LengthenLoop(_, _, _)
LengthenLoop(ns, note_num, num_notes) ==
    IF note_num >= num_notes THEN [ns |-> ns, ok |-> TRUE]
    ELSE IF Len(ns) - note_num < 1 THEN [ns |-> ns, ok |-> FALSE]
    ELSE LET i == Len(ns) - note_num
         IN  LengthenLoop(IF ns[i].doubled THEN ns
                          ELSE [ns EXCEPT ![i] = IncrementDuration(ns[i])],
                          note_num + 1, num_notes)

\* GabcParser.maybe_lengthen_last_note
MaybeLengthenLastNote(ns, num_notes, duplicate_note, neume_len) ==
    IF duplicate_note
    THEN IF Len(ns) = 0 THEN [ns |-> ns, ok |-> FALSE]
         ELSE [ns |-> [ns EXCEPT ![Len(ns)] = IncrementDuration(ns[Len(ns)])],
               ok |-> TRUE]
    ELSE LengthenLoop(ns, 0, IF num_notes = 0 THEN neume_len ELSE num_notes)

\* GabcParser.set_accidental, on self.scale
SetAccidental(scs, mark) ==
    [scs EXCEPT ![Len(scs)] =
        ScaleSetAccidental(scs[Len(scs)], IF mark = "x" THEN "on" ELSE "off")]

\* the string deal_with_syllable_level returns
CleanedString(t) ==
    RemovePatterns(IF AccidentalSearch(t) # "" THEN SubAccidental(t) ELSE t)

(***************************************************************************)
(* Inputs.                                                                 *)
(***************************************************************************)
MaxTokens == 2
MaxTie == 4
MaxDots == 3

\* the first element of note_array: a clef, and strings that are none
InitialClefs == {<<"c", "1">>, <<"g", "1">>, <<"c", "5">>, <<"1", "c">>, <<"c">>, <<>>}

\* the strings set_clef is tried on: a letter, a digit and perhaps one more
\* character, a letter alone, the empty string
ClefInputs ==
    LET letters == {"c", "f", "C", "F", "g", "G", "b", "k"}
        digits == {"0", "1", "2", "3", "4", "5"}
    IN  {<<l, d>> : l \in letters, d \in digits}
          \cup {<<l, d, "j">> : l \in letters, d \in digits}
          \cup {<<l>> : l \in letters} \cup {<<>>}

\* n times the character c
Run(c, n) == [i \in 1..n |-> c]

\* the notes of a syllable: none, one letter up to MaxTie times, two letters
NoteParts == {<<>>, <<"d">>, <<"j", "d">>} \cup {Run("j", n) : n \in 1..MaxTie}

\* what follows the notes: nothing, one of ornament, hollow, bar, virga,
\* liquescent, a character the scan rejects, or up to MaxDots dots
MarkParts ==
    {<<>>, <<"w">>, <<"r">>, <<",">>, <<"v">>, <<"~">>, <<"q">>}
      \cup {Run(".", n) : n \in 1..MaxDots}

\* what a syllable string starts with: a double bar, a clef, a flat, a natural
Prefixes == {<<":", ":">>, <<"f", "3">>, <<"j", "x">>, <<"j", "y">>}

\* notes with bracketed annotations: a spacing number before a note, an
\* annotation between two notes, a note between two annotations, a note
\* between two spacing numbers
BracketTokens ==
    {<<"[", "3", "]", "j">>, <<"j", "[", "o", "]", "d">>,
     <<"[", "o", "]", "j", "[", "o", "]">>, <<"[", "3", "]", "j", "[", "4", "]">>}

\* the strings of note_array after the first: notes then marks; a bar or a
\* rejected character before a note, a dot before a rejected character, a
\* clef and a flat before a note; a prefix before notes and a mark; notes
\* with annotations
Tokens ==
    {n \o m : n \in NoteParts, m \in MarkParts}
      \cup {<<",", "j">>, <<"q", "j">>, <<".", "q">>, <<"f", "3", "j", "x", "j">>}
      \cup {p \o n \o m : p \in Prefixes,
                          n \in {<<>>, <<"j">>, <<"d">>, <<"j", "d">>},
                          m \in {<<>>, <<"w">>, <<",">>}}
      \cup BracketTokens

(***************************************************************************)
(* The program.                                                            *)
(***************************************************************************)
Init ==
    /\ pc = "start"
    /\ err = "none"
    /\ clef_in \in InitialClefs
    /\ ntok = 0
    /\ tok = <<>>
    /\ note_stream = <<>>
    /\ last_neume_len = 0
    /\ scales = <<>>
    /\ g_str = <<>>
    /\ pos = 0
    /\ prev_note = ""
    /\ dot_seen = FALSE
    /\ output = <<>>
    /\ acc_scope = "natural"
    /\ run_notes = 0
    /\ nontie = <<>>
    /\ passing = <<>>

\* an exception leaves the program
Raise(e) == pc' = "error" /\ err' = e

\* parse_gabc up to its loop: set_clef(note_array[0])
ParseGabc ==
    /\ pc = "start"
    /\ IF SetClefOk(clef_in)
       THEN /\ scales' = <<NewScale(SetClefTonic(clef_in))>>
            /\ pc' = "token"
            /\ err' = err
       ELSE /\ Raise("InvalidClef")
            /\ scales' = scales
    /\ UNCHANGED <<clef_in, ntok, tok, note_stream, last_neume_len, g_str, pos,
                   prev_note, dot_seen, output, acc_scope, run_notes, nontie, passing>>

\* decode_gabc_string(t) up to its loop: deal_with_syllable_level and the
\* two locals
DealWithSyllableLevel(t) ==
    LET dbar == IF DoubleBarMatch(t)
                THEN MaybeLengthenLastNote(note_stream, 0, FALSE, last_neume_len)
                ELSE [ns |-> note_stream, ok |-> TRUE]
        scs1 == IF ClefMatch(t) THEN Append(scales, NewScale(SetClefTonic(t)))
                ELSE scales
        mark == AccidentalSearch(t)
        scs2 == IF mark # "" THEN SetAccidental(scs1, mark) ELSE scs1
        cleaned == CleanedString(t)
        span == LastNeumeSpan(cleaned)
        scope1 == IF ClefMatch(t) THEN "natural" ELSE acc_scope
    IN  /\ ntok' = ntok + 1
        /\ tok' = t
        /\ note_stream' = dbar.ns
        /\ IF dbar.ok
           THEN /\ scales' = scs2
                /\ last_neume_len' = IF span > 0 THEN span ELSE last_neume_len
                /\ g_str' = Lower(cleaned)
                /\ pos' = 1
                /\ pc' = "scan"
                /\ err' = err
                /\ acc_scope' = IF mark = "x" THEN "flat"
                                ELSE IF mark = "y" /\ scope1 = "flat" THEN "cancelled"
                                ELSE scope1
           ELSE /\ Raise("IndexError")
                /\ UNCHANGED <<scales, last_neume_len, g_str, pos, acc_scope>>
        /\ run_notes' = IF cleaned # <<>> /\ cleaned[1] \in BarChars THEN run_notes ELSE 0
        /\ nontie' = CountLengthened(note_stream, note_stream', nontie)
        /\ UNCHANGED <<clef_in, prev_note, dot_seen, output, passing>>

\* the loop of parse_gabc calls decode_gabc_string with the next string
DecodeGabcString ==
    /\ pc = "token"
    /\ ntok < MaxTokens
    /\ \E t \in Tokens : DealWithSyllableLevel(t)

\* the loop of decode_gabc_string is at character ch
AtChar == pc = "scan" /\ pos <= Len(g_str)

ch == g_str[pos]

\* what no branch of the loop changes
LoopFrame == UNCHANGED <<clef_in, ntok, tok, g_str, output>>

\* "a" <= ch <= "m", another letter than the one before
ScanPitchLetter ==
    /\ AtChar
    /\ ch \in PitchLetters
    /\ prev_note # ch
    /\ note_stream' = Append(note_stream, MakeNote(ch))
    /\ prev_note' = ch
    /\ pos' = pos + 1
    /\ run_notes' = run_notes + 1
    /\ nontie' = Append(nontie, 0)
    /\ LoopFrame
    /\ UNCHANGED <<pc, err, last_neume_len, scales, dot_seen, acc_scope, passing>>

\* "a" <= ch <= "m", the letter before again: a tie
ScanTie ==
    /\ AtChar
    /\ ch \in PitchLetters
    /\ prev_note = ch
    /\ LET r == MaybeLengthenLastNote(note_stream, 1, TRUE, last_neume_len)
       IN  /\ note_stream' = r.ns
           /\ IF r.ok THEN pos' = pos + 1 /\ UNCHANGED <<pc, err>>
              ELSE Raise("IndexError") /\ pos' = pos
    /\ LoopFrame
    /\ UNCHANGED <<last_neume_len, scales, prev_note, dot_seen, acc_scope, run_notes,
                   nontie, passing>>

\* ch == "w": ornament_last_note
ScanOrnament ==
    /\ AtChar
    /\ ch = "w"
    /\ IF Len(note_stream) = 0
       THEN Raise("IndexError") /\ UNCHANGED <<note_stream, pos>>
       ELSE /\ note_stream' = [note_stream EXCEPT
                                 ![Len(note_stream)] = Ornament(@, ch)]
            /\ pos' = pos + 1
            /\ UNCHANGED <<pc, err>>
    /\ run_notes' = 0
    /\ LoopFrame
    /\ UNCHANGED <<last_neume_len, scales, prev_note, dot_seen, acc_scope, nontie, passing>>

\* virga and spacing: pass
ScanIgnorable ==
    /\ AtChar
    /\ ch \in Ignorable
    /\ pos' = pos + 1
    /\ run_notes' = 0
    /\ LoopFrame
    /\ UNCHANGED <<pc, err, note_stream, last_neume_len, scales, prev_note,
                   dot_seen, acc_scope, nontie, passing>>

\* ch == ".": one note, or two when a dot was seen before in this string
ScanDot ==
    /\ AtChar
    /\ ch = "."
    /\ LET r == MaybeLengthenLastNote(note_stream, IF dot_seen THEN 2 ELSE 1,
                                      FALSE, last_neume_len)
       IN  /\ note_stream' = r.ns
           /\ IF r.ok THEN pos' = pos + 1 /\ UNCHANGED <<pc, err>>
              ELSE Raise("IndexError") /\ pos' = pos
    /\ dot_seen' = ~dot_seen
    /\ run_notes' = 0
    /\ nontie' = CountLengthened(note_stream, note_stream', nontie)
    /\ LoopFrame
    /\ UNCHANGED <<last_neume_len, scales, prev_note, acc_scope, passing>>

\* ch == "r": shorten_last_note
ScanHollow ==
    /\ AtChar
    /\ ch = "r"
    /\ IF Len(note_stream) = 0
       THEN Raise("IndexError") /\ UNCHANGED <<note_stream, pos>>
       ELSE /\ note_stream' = [note_stream EXCEPT
                                 ![Len(note_stream)] = HalveDuration(@)]
            /\ pos' = pos + 1
            /\ UNCHANGED <<pc, err>>
    /\ run_notes' = 0
    /\ LoopFrame
    /\ UNCHANGED <<last_neume_len, scales, prev_note, dot_seen, acc_scope, nontie, passing>>

\* a bar: undo the accidental, lengthen the last neume; last_neume_len is
\* reset only when the lengthening returned
ScanBar ==
    /\ AtChar
    /\ ch \in BarChars
    /\ scales' = [scales EXCEPT ![Len(scales)] = UndoAccidental(@)]
    /\ LET r == MaybeLengthenLastNote(note_stream, 0, FALSE, last_neume_len)
       IN  /\ note_stream' = r.ns
           /\ IF r.ok
              THEN pos' = pos + 1 /\ last_neume_len' = 0 /\ UNCHANGED <<pc, err>>
              ELSE Raise("IndexError") /\ UNCHANGED <<pos, last_neume_len>>
    /\ acc_scope' = "natural"
    /\ run_notes' = 0
    /\ nontie' = CountLengthened(note_stream, note_stream', nontie)
    /\ LoopFrame
    /\ UNCHANGED <<prev_note, dot_seen, passing>>

\* ch == "~": pass
ScanLiquescent ==
    /\ AtChar
    /\ ch = "~"
    /\ pos' = pos + 1
    /\ run_notes' = 0
    /\ LoopFrame
    /\ UNCHANGED <<pc, err, note_stream, last_neume_len, scales, prev_note,
                   dot_seen, acc_scope, nontie, passing>>

\* the characters the loop has a branch for
Recognized == PitchLetters \cup {"w", ".", "r", "~"} \cup Ignorable \cup BarChars

\* else: raise ValueError
ScanUnsupported ==
    /\ AtChar
    /\ ch \notin Recognized
    /\ Raise("UnsupportedToken")
    /\ LoopFrame
    /\ UNCHANGED <<note_stream, last_neume_len, scales, pos, prev_note, dot_seen,
                   acc_scope, run_notes, nontie, passing>>

\* the loop is exhausted: decode_gabc_string returns, its locals are gone
EndOfString ==
    /\ pc = "scan"
    /\ pos > Len(g_str)
    /\ pc' = "token"
    /\ tok' = <<>>
    /\ g_str' = <<>>
    /\ pos' = 0
    /\ prev_note' = ""
    /\ dot_seen' = FALSE
    /\ UNCHANGED <<err, clef_in, ntok, note_stream, last_neume_len, scales, output,
                   acc_scope, run_notes, nontie, passing>>

\* note_array is exhausted: parse_gabc returns
EndOfInput ==
    /\ pc = "token"
    /\ pc' = "done"
    /\ UNCHANGED <<err, clef_in, ntok, tok, note_stream, last_neume_len, scales,
                   g_str, pos, prev_note, dot_seen, output, acc_scope, run_notes,
                   nontie, passing>>

\* the text of the notes up to the first that fails to render
RECURSIVE RenderNotes(_, _)
RenderNotes(ns, i) ==
    IF i > Len(ns) THEN [ok |-> TRUE, err |-> "none", lines |-> <<>>]
    ELSE LET r == ToLy(ns[i], scales[ns[i].scale])
         IN  IF ~r.ok THEN [ok |-> FALSE, err |-> r.err, lines |-> <<>>]
             ELSE LET rest == RenderNotes(ns, i + 1)
                  IN  [ok |-> rest.ok, err |-> rest.err,
                       lines |-> IF rest.ok THEN <<r.text>> \o rest.lines ELSE <<>>]

\* the val of the Notes lower_note returns for the ornamented Notes of ns
PassingValues(ns) ==
    LET orn == SelectSeq(ns, LAMBDA n : n.ornamentation # "None")
    IN  [i \in DOMAIN orn |->
            LowerNote(scales[orn[i].scale], orn[i].val - MIDI_PITCH_OFFSET)
              + MIDI_PITCH_OFFSET]

\* GabcParser.to_ly: the note stream printed twice, display then midi
GabcToLy ==
    /\ pc = "done"
    /\ LET r == RenderNotes(note_stream, 1)
       IN  IF r.ok
           THEN /\ pc' = "rendered"
                /\ output' = <<r.lines, r.lines>>
                /\ passing' = PassingValues(note_stream)
                /\ err' = err
           ELSE Raise(r.err) /\ UNCHANGED <<output, passing>>
    /\ UNCHANGED <<clef_in, ntok, tok, note_stream, last_neume_len, scales, g_str,
                   pos, prev_note, dot_seen, acc_scope, run_notes, nontie>>

Next ==
    \/ ParseGabc
    \/ DecodeGabcString
    \/ ScanPitchLetter
    \/ ScanTie
    \/ ScanOrnament
    \/ ScanIgnorable
    \/ ScanDot
    \/ ScanHollow
    \/ ScanBar
    \/ ScanLiquescent
    \/ ScanUnsupported
    \/ EndOfString
    \/ EndOfInput
    \/ GabcToLy

Spec == Init /\ [][Next]_vars

\* set_clef alone, on every string of ClefInputs
InitClef ==
    /\ pc = "start"
    /\ err = "none"
    /\ clef_in \in ClefInputs
    /\ ntok = 0
    /\ tok = <<>>
    /\ note_stream = <<>>
    /\ last_neume_len = 0
    /\ scales = <<>>
    /\ g_str = <<>>
    /\ pos = 0
    /\ prev_note = ""
    /\ dot_seen = FALSE
    /\ output = <<>>
    /\ acc_scope = "natural"
    /\ run_notes = 0
    /\ nontie = <<>>
    /\ passing = <<>>

NextClef == ParseGabc

SpecClef == InitClef /\ [][NextClef]_vars

\* the clefs set_clef takes, in lower case
ValidClefs == {<<l, d>> : l \in ClefLetters, d \in ClefLines}

\* to_ly alone, on the stream parse_gabc leaves for a clef and one string
\* that holds one pitch letter and the ornament marker, with a flat before
\* them or without: one ornamented Note on every degree of the Scale
InitLower ==
    \E clef \in ValidClefs, letter \in PitchLetters, flat \in BOOLEAN :
      LET natural == NewScale(SetClefTonic(clef))
          sc == IF flat THEN ScaleSetAccidental(natural, "on") ELSE natural
          val == Semitones(sc, (Ord(letter) - Ord("d")) + sc.tonic_adjust)
      IN  /\ pc = "done"
          /\ err = "none"
          /\ clef_in = clef
          /\ ntok = 1
          /\ tok = <<>>
          /\ note_stream = <<Ornament(NewNote(val, 1), "w")>>
          /\ last_neume_len = 0
          /\ scales = <<sc>>
          /\ g_str = <<>>
          /\ pos = 0
          /\ prev_note = ""
          /\ dot_seen = FALSE
          /\ output = <<>>
          /\ acc_scope = IF flat THEN "flat" ELSE "natural"
          /\ run_notes = 0
          /\ nontie = <<0>>
          /\ passing = <<>>

NextLower == GabcToLy

SpecLower == InitLower /\ [][NextLower]_vars

(***************************************************************************)
(* Properties.                                                             *)
(***************************************************************************)
Last(ns) == ns[Len(ns)]

\* the loop is at a bar delimiter
BarStep == AtChar /\ ch \in BarChars

\* the durations of ns2 are those of ns1, plus one lengthening step for the
\* last n notes
LastLengthened(ns1, ns2, n) ==
    /\ Len(ns2) = Len(ns1)
    /\ \A i \in DOMAIN ns1 :
         ns2[i].duration = ns1[i].duration
                             + (IF i > Len(ns1) - n THEN NORMAL_DURATION ELSE 0)

\* C1: a bar delimiter that follows a run of pitch letters at once (in the
\* same string, or as the start of the next) raises the duration of exactly
\* the Notes of that run by one step each, and decode goes on.
C1_BarLengthensTrailingRun ==
    [][(BarStep /\ run_notes > 0)
         => /\ pc' = "scan"
            /\ run_notes <= Len(note_stream)
            /\ LastLengthened(note_stream, note_stream', run_notes)]_vars

\* the pitch of the note a letter makes under a clef offset, with the
\* seventh degree at the given number of semitones
ExpectedPitch(letter, tonic, seventh) ==
    LET n == Ord(letter) - Ord("d") + tonic
    IN  60 + 12 * (n \div 7) + <<0, 2, 4, 5, 7, 9, seventh>>[(n % 7) + 1]

\* the step appends a Note
NoteCreated == AtChar /\ Len(note_stream') = Len(note_stream) + 1

\* C2 as claimed: once a flat was applied, every Note is created with the
\* seventh at 10 until a bar delimiter or a clef, and with the seventh at 11
\* after that.
C2_FlatUntilBarOrClef ==
    [][NoteCreated
         => Last(note_stream').val =
              ExpectedPitch(ch, CurScale.tonic_adjust,
                            IF acc_scope \in {"flat", "cancelled"} THEN 10 ELSE 11)]_vars

\* C2 as amended: once a flat was applied, every Note is created with the
\* seventh at 10 until a bar delimiter is scanned, a string starts with a
\* clef, or a natural is applied; every other Note is created with the
\* seventh at 11.
C2_FlatUntilBarClefOrNatural ==
    [][NoteCreated
         => Last(note_stream').val =
              ExpectedPitch(ch, CurScale.tonic_adjust,
                            IF acc_scope = "flat" THEN 10 ELSE 11)]_vars

\* a flattened seventh (b flat over the tonic 60) and, after the bar that
\* ended the flat, a natural one
C2_Witness ==
    /\ acc_scope = "natural"
    /\ Len(scales) = 1
    /\ \E i, k \in DOMAIN note_stream :
         i < k /\ note_stream[i].val = 70 /\ note_stream[k].val = 71

\* C3: rendering never fails in the reverse degree lookup of lower_note,
\* and a rendered stream has a line for every Note in both blocks.
C3_OrnamentedNotesRender ==
    /\ err # "InternalInconsistency"
    /\ pc = "rendered" =>
         \A b \in 1..2 : Len(output[b]) = Len(note_stream)

\* the string is one pitch letter, n >= 1 times
SameLetterString(s) ==
    /\ Len(s) >= 1
    /\ s[1] \in PitchLetters
    /\ \A i \in DOMAIN s : s[i] = s[1]

\* C4: in a string of n identical pitch letters the first letter appends one
\* Note of normal duration and every further letter leaves the stream as
\* long as it is and brings that Note to normal + (letters so far - 1)
\* steps; the other Notes keep their duration.
C4_IdenticalLettersMakeOneNote ==
    [][(AtChar /\ SameLetterString(tok))
         => /\ pc' = "scan"
            /\ pos' = pos + 1
            /\ Len(note_stream') = Len(note_stream) + (IF pos = 1 THEN 1 ELSE 0)
            /\ Last(note_stream').duration
                 = NORMAL_DURATION + (pos - 1) * NORMAL_DURATION
            /\ \A i \in 1..(Len(note_stream') - 1) :
                 note_stream'[i].duration = note_stream[i].duration]_vars

\* three identical letters have been scanned: one Note, three times as long
C4_Witness ==
    /\ pc = "scan"
    /\ tok = <<"j", "j", "j">>
    /\ pos = 4
    /\ Len(note_stream) = 1
    /\ Last(note_stream).duration = 6

\* how many dots stand right before position p of s
RECURSIVE DotsBefore(_, _)
DotsBefore(s, p) ==
    IF p > 1 /\ s[p - 1] = "." THEN 1 + DotsBefore(s, p - 1) ELSE 0

\* the string up to position p is pitch letters only, at least one
LettersUpTo(s, p) == p >= 1 /\ \A i \in 1..p : s[i] \in PitchLetters

\* C5: in a string of Notes followed by dots, the first dot lengthens exactly
\* the last Note by one step, the second exactly the Note before it (so the
\* two dots lengthen the last two Notes once each), the third no Note.
C5_DotsLengthen ==
    [][(AtChar /\ ch = "." /\ DotsBefore(g_str, pos) <= 2
          /\ LettersUpTo(g_str, pos - 1 - DotsBefore(g_str, pos)))
         => LET k == DotsBefore(g_str, pos)
                n == Len(note_stream)
            IN  /\ pc' = "scan"
                /\ Len(note_stream') = n
                /\ \A i \in 1..n :
                     note_stream'[i].duration =
                       note_stream[i].duration
                         + (IF i = n - k /\ k < 2 THEN NORMAL_DURATION ELSE 0)]_vars

\* the number of the line a clef digit names
ClefLine(d) == CASE d = "1" -> 1 [] d = "2" -> 2 [] d = "3" -> 3 [] d = "4" -> 4

\* the string is a clef: c or f in either case, then a line 1..4
ClefShape(s) ==
    Len(s) >= 2 /\ s[1] \in {"c", "f", "C", "F"} /\ s[2] \in {"1", "2", "3", "4"}

\* C6 as claimed: set_clef sets tonic_adjust to (1 for f, 0 for c) minus
\* twice (line - 1).
C6_TonicAdjustOneForF ==
    (pc = "token" /\ ntok = 0)
      => CurScale.tonic_adjust =
           (IF clef_in[1] \in {"f", "F"} THEN 1 ELSE 0) - 2 * (ClefLine(clef_in[2]) - 1)

\* C6 as amended: set_clef sets tonic_adjust to (3 for f, 0 for c) minus
\* twice (line - 1): c1 gives 0, f1 gives 3, c4 gives -6.
C6_TonicAdjustThreeForF ==
    (pc = "token" /\ ntok = 0)
      => /\ ClefShape(clef_in)
         /\ CurScale.tonic_adjust =
              (IF clef_in[1] \in {"f", "F"} THEN 3 ELSE 0)
                - 2 * (ClefLine(clef_in[2]) - 1)

\* set_clef has been applied to f1
C6_Witness ==
    /\ pc = "token"
    /\ clef_in = <<"f", "1">>
    /\ CurScale.tonic_adjust = 3

\* C7: decode ends by InvalidClef or UnsupportedToken or not at all (the
\* other two errors are those of rendering, after decode).
C7_DecodeAbortsOnlyOnClefOrToken ==
    pc = "error"
      => err \in {"InvalidClef", "UnsupportedToken",
                  "InternalInconsistency", "DurationIndexError"}

\* C8: a hollow marker sets the duration of the last Note to 1 and leaves
\* the duration of every other Note.
C8_HollowSetsShortest ==
    [][(AtChar /\ ch = "r" /\ Len(note_stream) > 0)
         => /\ pc' = "scan"
            /\ Len(note_stream') = Len(note_stream)
            /\ Last(note_stream').duration = 1
            /\ \A i \in 1..(Len(note_stream) - 1) :
                 note_stream'[i].duration = note_stream[i].duration]_vars

\* the hollow marker has just been scanned, on a Note lengthened before
C8_Witness ==
    /\ pc = "scan"
    /\ pos > 1
    /\ g_str[pos - 1] = "r"
    /\ Len(note_stream) > 0
    /\ Last(note_stream).doubled
    /\ Last(note_stream).duration = 1

\* C9: when the first string is no clef the program is before set_clef or
\* has failed with InvalidClef, and the stream is empty.
C9_InvalidClefFailsFirst ==
    ~ClefShape(clef_in)
      => /\ pc = "start" \/ (pc = "error" /\ err = "InvalidClef")
         /\ note_stream = <<>>
         /\ ntok = 0

\* decode has failed on the clef g1
C9_Witness ==
    /\ clef_in = <<"g", "1">>
    /\ pc = "error"
    /\ err = "InvalidClef"

\* the first position of s that holds a character the loop has no branch for
FirstUnsupported(s) ==
    CHOOSE i \in DOMAIN s :
      s[i] \notin Recognized /\ \A k \in 1..(i - 1) : s[k] \in Recognized

\* C10: when the cleaned string holds a character outside the alphabet, the
\* loop never gets past the first such character, and decode fails there
\* with UnsupportedToken.
C10_UnsupportedCharAborts ==
    (pc \in {"scan", "error"} /\ \E i \in DOMAIN g_str : g_str[i] \notin Recognized)
      => /\ pos <= FirstUnsupported(g_str)
         /\ pc = "error" => (err = "UnsupportedToken" /\ pos = FirstUnsupported(g_str))

\* the Note the letter d makes under the clef c1: the tonic, 60, of normal
\* duration
TonicNote ==
    [val |-> MIDI_PITCH_OFFSET, scale |-> 1, duration |-> NORMAL_DURATION,
     ornamentation |-> "None", doubled |-> FALSE]

\* the scan of the one string "d" after the clef c1 has come to its end
TonicDecoded ==
    /\ pc = "scan"
    /\ clef_in = <<"c", "1">>
    /\ ntok = 1
    /\ tok = <<"d">>
    /\ pos > Len(g_str)

\* C11 as claimed: ["c1", "d"] decodes to the one Note TonicNote, and that
\* stream renders as "c4": the name of the tonic, no octave mark, the token
\* of the normal duration.
C11_TonicRendersWithoutOctaveMark ==
    /\ TonicDecoded => note_stream = <<TonicNote>>
    /\ (pc = "rendered" /\ note_stream = <<TonicNote>>)
         => output = << <<"c4">>, <<"c4">> >>

\* C11 as amended: ["c1", "d"] decodes to the one Note TonicNote, and that
\* stream renders as "c'4": the name of the tonic, one mark for the octave
\* above (60 is in octave 5, one above the octave without a mark), the token
\* of the normal duration.
C11_TonicRendersOneOctaveUp ==
    /\ TonicDecoded => note_stream = <<TonicNote>>
    /\ (pc = "rendered" /\ note_stream = <<TonicNote>>)
         => output = << <<"c'4">>, <<"c'4">> >>

\* the stream of one tonic Note, decoded from one string after c1, rendered
C11_Witness ==
    /\ pc = "rendered"
    /\ clef_in = <<"c", "1">>
    /\ ntok = 1
    /\ note_stream = <<TonicNote>>
    /\ output[1] = <<"c'4">>

\* the step scans a repeated pitch letter: a tie
TieStep == AtChar /\ ch \in PitchLetters /\ prev_note = ch

\* the loop is at a dot or a bar delimiter that follows, in one string, two
\* or more of the same pitch letter and nothing else: the last Note is the
\* one they made, lengthened by ties only
AfterTiesOnly ==
    /\ AtChar
    /\ ch \in {"."} \cup BarChars
    /\ pos >= 3
    /\ SameLetterString(SubSeq(g_str, 1, pos - 1))

\* C12: a tie leaves the doubled flag of the Note as it was, and a dot or a
\* bar that follows the ties lengthens that Note by one more step.
C12_TieLeavesFlagAndDotLengthens ==
    [][/\ TieStep => Last(note_stream').doubled = Last(note_stream).doubled
       /\ AfterTiesOnly =>
            Last(note_stream').duration
              = Last(note_stream).duration + NORMAL_DURATION]_vars

\* C13: no Note's duration is raised by dots, bars and double bars more than
\* once in all.
C13_LengthenedAtMostOnce ==
    /\ Len(nontie) = Len(note_stream)
    /\ \A i \in DOMAIN nontie : nontie[i] <= 1

\* "jd...": the first dot has lengthened the last Note, the second the Note
\* before it, and the third dot has addressed the last Note again
C13_Witness ==
    /\ pc = "scan"
    /\ tok = <<"j", "d", ".", ".", ".">>
    /\ pos = 6
    /\ nontie = <<1, 1>>
    /\ \A i \in 1..2 : note_stream[i].duration = 2 * NORMAL_DURATION

\* C14: when decode has returned, every Note's duration is an index of
\* LY_DURATION from 1 to its last, and rendering never fails on the lookup
\* of a duration.
C14_DurationsWithinTable ==
    /\ pc = "done" =>
         \A i \in DOMAIN note_stream :
           note_stream[i].duration \in 1..(Len(LY_DURATION) - 1)
    /\ err # "DurationIndexError"

\* C15: last_neume_len is 0 right after a bar delimiter was scanned, and
\* when a string that starts with a double bar has been preprocessed
\* it holds no more than the length of that string's own trailing neume
\* (0 when it has none): nothing of an earlier string is left in it.
C15_BarResetsNeumeLength ==
    /\ (pc = "scan" /\ pos > 1 /\ g_str[pos - 1] \in BarChars) => last_neume_len = 0
    /\ (pc = "scan" /\ pos = 1 /\ DoubleBarMatch(tok))
         => last_neume_len = LastNeumeSpan(CleanedString(tok))

\* the seven degrees 0..6, the first six at their fixed semitones, the
\* seventh at 10 or 11
ScaleWellFormed(sc) ==
    /\ DOMAIN sc.semi_tones = 0..6
    /\ \A d \in 0..5 : sc.semi_tones[d] = <<0, 2, 4, 5, 7, 9>>[d + 1]
    /\ sc.semi_tones[6] \in {10, 11}

\* C16: every Scale of the decode, the current one included, has the seven
\* fixed degrees with the seventh at 10 or 11; the Scale the initial clef
\* made has the seventh at 11, and so has the Scale made by a clef at the
\* start of a string, until a flat of that same string is applied to it.
C16_ScaleDegreesFixed ==
    /\ \A k \in DOMAIN scales : ScaleWellFormed(scales[k])
    /\ (pc = "token" /\ ntok = 0) => CurScale.semi_tones[6] = 11
    /\ (pc = "scan" /\ pos = 1 /\ ClefMatch(tok))
         => CurScale.semi_tones[6] = (IF AccidentalSearch(tok) = "x" THEN 10 ELSE 11)

\* a clef at the start of a string has replaced a flattened Scale by a new
\* one with the natural seventh
C16_Witness ==
    /\ pc = "scan"
    /\ pos = 1
    /\ ClefMatch(tok)
    /\ Len(scales) = 2
    /\ scales[1].semi_tones[6] = 10
    /\ CurScale.semi_tones[6] = 11

\* C17: no step removes or reorders a Note of the stream or changes the
\* pitch (or the Scale) of a Note that is already there; only duration,
\* ornament and the doubled flag of those Notes may change.
C17_StreamAppendOnly ==
    [][/\ Len(note_stream') >= Len(note_stream)
       /\ \A i \in DOMAIN note_stream :
            /\ note_stream'[i].val = note_stream[i].val
            /\ note_stream'[i].scale = note_stream[i].scale]_vars

\* a stream of two Notes where the first was ornamented and lengthened and
\* the second made hollow: steps have changed Notes that were already there
C17_Witness ==
    /\ Len(note_stream) = 2
    /\ note_stream[1].ornamentation = "w"
    /\ note_stream[1].duration > NORMAL_DURATION
    /\ note_stream[2].duration = 1

\* the pitch (a Note's val) lies on the scale
OnScale(sc, v) ==
    \E d \in 0..6 : (v - MIDI_PITCH_OFFSET) % 12 = sc.semi_tones[d]

\* C18: for an ornamented Note on its scale, rendering succeeds and
\* lower_note returns the nearest pitch of the scale strictly below the
\* Note's: 1 or 2 semitones lower, on the scale, no pitch of the scale in
\* between, and for a Note on degree 0 the degree 6 of the octave below.
C18_LowerNoteIsNextBelow ==
    /\ err = "none"
    /\ pc = "rendered" =>
         /\ Len(passing) = Len(note_stream)
         /\ \A i \in DOMAIN note_stream :
              LET v == note_stream[i].val
                  sc == scales[note_stream[i].scale]
                  r == passing[i]
              IN  /\ OnScale(sc, v)
                  /\ v - r \in {1, 2}
                  /\ OnScale(sc, r)
                  /\ \A w \in (r + 1)..(v - 1) : ~OnScale(sc, w)
                  /\ (v - MIDI_PITCH_OFFSET) % 12 = 0
                       => r - MIDI_PITCH_OFFSET
                            = 12 * (((v - MIDI_PITCH_OFFSET) \div 12) - 1)
                                + sc.semi_tones[6]

\* the Note on degree 0 one octave below the tonic 60 (the letter c under
\* the clef c4), with the seventh flattened: the passing note is the b flat
\* of the octave below that
C18_Witness ==
    /\ pc = "rendered"
    /\ note_stream[1].val = 48
    /\ scales[1].semi_tones[6] = 10
    /\ passing = <<46>>

\* position i of t lies inside a pair of brackets: between a "[" and the
\* first "]" after it
InsideBrackets(t, i) ==
    \E a \in 1..(i - 1), b \in (i + 1)..Len(t) :
      /\ t[a] = "["
      /\ t[b] = "]"
      /\ \A k \in (a + 1)..(b - 1) : t[k] \notin {"[", "]"}

\* the pitch letters of t that lie outside every pair of brackets, in lower
\* case
LettersOutsideBrackets(t) ==
    LET idx == SelectSeq([i \in 1..Len(t) |-> i],
                         LAMBDA i : /\ t[i] \in PitchLetters \cup UpperPitch
                                    /\ ~InsideBrackets(t, i))
    IN  [k \in DOMAIN idx |-> LowerCh(t[idx[k]])]

\* C19: for a string without clef and accidental, the pitch letters of the
\* string the scan iterates are the pitch letters that lie outside every
\* pair of brackets of the string decode_gabc_string was called with.
C19_LettersOutsideBracketsSurvive ==
    (pc = "scan" /\ SubClef(tok) = tok /\ SubAccidental(tok) = tok)
      => SelectSeq(g_str, LAMBDA c : c \in PitchLetters) = LettersOutsideBrackets(tok)

====
